---------------------------- MODULE Spec2Model ----------------------------
(***************************************************************************)
(* grpc-rate-service: the request path                                     *)
(*   RPC handler -> RateService -> KuCoinClient (HTTP) -> RateRepository   *)
(* and the health probe.  Every RPC is one atomic step of the model: the   *)
(* code performs the upstream fetch and the insert strictly in sequence    *)
(* inside one call.                                                        *)
(*                                                                         *)
(* Representation of Go values:                                            *)
(*   int64     eight limbs of 8 bits, least significant first, two's       *)
(*             complement (TLC's own integers are only 32 bits wide);      *)
(*   float64   an exact decimal [m, e] standing for m * 10^(-e), with no   *)
(*             trailing zero in m when e > 0;                              *)
(*   string    an order-book field is a sequence of one-character strings  *)
(*             so that strconv.ParseFloat can be modelled as a parser;     *)
(*   time.Time [day, sod, nsec]: days since 1970-01-01, second of the day  *)
(*             and nanosecond of the second, all in UTC;                   *)
(*   error     the chain of wrapped messages, outermost first; nil is <<>>. *)
(***************************************************************************)
EXTENDS Integers, Sequences, FiniteSets, TLC

(***************************************************************************)
(* Bounds of the model.                                                    *)
(***************************************************************************)
MaxRows == 2

(***************************************************************************)
(* 64-bit two's complement arithmetic on limbs of 8 bits.                  *)
(***************************************************************************)
LimbBase == 256
NumLimbs == 8

\* Op applied to the value of x, which is computed once
Apply(x, Op(_)) == CHOOSE r \in {Op(v) : v \in {x}} : TRUE

RECURSIVE NatLimbs(_, _)
NatLimbs(n, k) ==
    IF k = 0 THEN <<>> ELSE <<n % LimbBase>> \o NatLimbs(n \div LimbBase, k - 1)

\* propagate the carries of the column sums cols[i..], dropping the last carry
RECURSIVE Carry(_, _, _)
Carry(cols, i, c) ==
    IF i > Len(cols) THEN <<>>
    ELSE <<(cols[i] + c) % LimbBase>> \o Carry(cols, i + 1, (cols[i] + c) \div LimbBase)

I64Add(a, b) ==
    Apply(<<a, b>>, LAMBDA p :
        Apply([i \in 1..NumLimbs |-> p[1][i] + p[2][i]], LAMBDA cols : Carry(cols, 1, 0)))

I64Neg(a) ==
    Apply(a, LAMBDA v :
        Apply([i \in 1..NumLimbs |-> LimbBase - 1 - v[i]], LAMBDA cols : Carry(cols, 1, 1)))

I64IsNeg(a) == a[NumLimbs] >= LimbBase \div 2

\* an int64 from a (32-bit) model integer
I64(n) == IF n >= 0 THEN NatLimbs(n, NumLimbs) ELSE I64Neg(NatLimbs(0 - n, NumLimbs))

RECURSIVE Column(_, _, _, _)
Column(a, b, k, i) ==
    IF i > k THEN 0 ELSE a[i] * b[k - i + 1] + Column(a, b, k, i + 1)

\* a * b modulo 2^64, as Go's int64 multiplication wraps
I64Mul(a, b) ==
    Apply(<<a, b>>, LAMBDA p :
        Apply([k \in 1..NumLimbs |-> Column(p[1], p[2], k, 1)], LAMBDA cols : Carry(cols, 1, 0)))

\* unsigned long division of the limbs a[i..] by a divisor d < 2^23
UDivStep(hi, limb, d) ==
    Apply(hi, LAMBDA h :
        [q |-> <<(LimbBase * h.r + limb) \div d>> \o h.q,
         r |-> (LimbBase * h.r + limb) % d])

RECURSIVE UDivMod(_, _, _)
UDivMod(a, i, d) ==
    IF i > NumLimbs THEN [q |-> <<>>, r |-> 0]
    ELSE UDivStep(UDivMod(a, i + 1, d), a[i], d)

\* Go's / and % on int64: the quotient truncates toward zero and the
\* remainder takes the sign of the dividend
I64QuoRem(a, d) ==
    Apply(a, LAMBDA v :
        IF I64IsNeg(v)
        THEN Apply(I64Neg(v), LAMBDA m :
                 Apply(UDivMod(m, 1, d), LAMBDA u : [q |-> I64Neg(u.q), r |-> 0 - u.r]))
        ELSE UDivMod(v, 1, d))

\* floor division by d < 2^23: the remainder is in 0..d-1
I64FloorDivMod(a, d) ==
    Apply(I64QuoRem(a, d), LAMBDA t :
        IF t.r < 0 THEN [q |-> I64Add(t.q, I64(-1)), r |-> t.r + d] ELSE t)

\* the model integer of an int64 known to fit 31 bits
I64ToInt(a) ==
    Apply(a, LAMBDA v :
        IF I64IsNeg(v)
        THEN Apply(I64Neg(v), LAMBDA m :
                 0 - (m[1] + LimbBase * (m[2] + LimbBase * (m[3] + LimbBase * m[4]))))
        ELSE v[1] + LimbBase * (v[2] + LimbBase * (v[3] + LimbBase * v[4])))

(***************************************************************************)
(* time.Time.  time.Unix(sec, nsec) normalises nsec into [0, 1e9) and      *)
(* carries into sec; the model keeps sec split into day and second of day. *)
(***************************************************************************)
SecondsPerDay == 86400

Thousand == 1000

\* variant: the field is scaled as if it held microseconds
Millisecond_AsMicro == I64(1000)

\* int64(time.Millisecond): nanoseconds in one millisecond
Millisecond == I64(1000000)

\* time.Unix(0, nsec).UTC(): floor division of nsec by 1e9 (in three steps by
\* 1000, to stay within the divisor range of the limb arithmetic)
TimeUnixNano(nsec) ==
    Apply(I64FloorDivMod(nsec, Thousand), LAMBDA a :
    Apply(I64FloorDivMod(a.q, Thousand), LAMBDA b :
    Apply(I64FloorDivMod(b.q, Thousand), LAMBDA c :
    Apply(I64FloorDivMod(c.q, SecondsPerDay), LAMBDA d :
        [day  |-> I64ToInt(d.q),
         sod  |-> d.r,
         nsec |-> a.r + Thousand * b.r + Thousand * Thousand * c.r]))))

\* time.Time{}: January 1, year 1, 00:00:00 UTC
ZeroTime == [day |-> -719162, sod |-> 0, nsec |-> 0]

\* Time.Date, Time.Clock and the fraction, as time.RFC3339Nano prints them
CivilOf(t) ==
    LET z   == t.day + 719468
        era == z \div 146097
        doe == z - era * 146097
        yoe == (doe - doe \div 1460 + doe \div 36524 - doe \div 146096) \div 365
        doy == doe - (365 * yoe + yoe \div 4 - yoe \div 100)
        mp  == (5 * doy + 2) \div 153
        m   == IF mp < 10 THEN mp + 3 ELSE mp - 9
    IN  [year   |-> yoe + era * 400 + (IF m <= 2 THEN 1 ELSE 0),
         month  |-> m,
         dom    |-> doy - (153 * mp + 2) \div 5 + 1,
         hour   |-> t.sod \div 3600,
         minute |-> (t.sod % 3600) \div 60,
         second |-> t.sod % 60,
         nano   |-> t.nsec]

(***************************************************************************)
(* float64 and strconv.ParseFloat(s, 64) on plain decimal literals         *)
(* (optional sign, digits, at most one point).  The literals of the model  *)
(* have no exponent, no underscore and are not "Inf"/"NaN".                *)
(***************************************************************************)
DigitChars == <<"0", "1", "2", "3", "4", "5", "6", "7", "8", "9">>

IsDigit(c) == \E i \in 1..10 : DigitChars[i] = c

DigitVal(c) == (CHOOSE i \in 1..10 : DigitChars[i] = c) - 1

RECURSIVE Normalize(_, _)
Normalize(m, e) ==
    IF e > 0 /\ m % 10 = 0 THEN Normalize(m \div 10, e - 1) ELSE [m |-> m, e |-> e]

Float(m, e) == Normalize(m, e)

ZeroFloat == Float(0, 0)

\* the mantissa and the number of fraction digits of an unsigned literal
RECURSIVE ReadDigits(_, _, _, _)
ReadDigits(s, i, m, e) ==
    IF i > Len(s) THEN [m |-> m, e |-> e]
    ELSE IF s[i] = "." THEN ReadDigits(s, i + 1, m, 0)
    ELSE ReadDigits(s, i + 1, 10 * m + DigitVal(s[i]), IF e < 0 THEN e ELSE e + 1)

ParseFloat(s) ==
    Apply(IF Len(s) > 0 /\ s[1] \in {"+", "-"} THEN Tail(s) ELSE s, LAMBDA body :
        IF /\ \E i \in 1..Len(body) : IsDigit(body[i])
           /\ Cardinality({i \in 1..Len(body) : body[i] = "."}) <= 1
           /\ \A i \in 1..Len(body) : body[i] = "." \/ IsDigit(body[i])
        THEN Apply(ReadDigits(body, 1, 0, -1), LAMBDA r :
                 [ok  |-> TRUE,
                  val |-> Float(IF s[1] = "-" THEN 0 - r.m ELSE r.m,
                                IF r.e < 0 THEN 0 ELSE r.e)])
        ELSE [ok |-> FALSE, val |-> ZeroFloat])

(***************************************************************************)
(* Errors.  fmt.Errorf("msg: %w", err) puts a message in front of the      *)
(* chain; errors.Is walks the chain.                                       *)
(***************************************************************************)
NilErr == <<>>

NewError(msg) == <<msg>>

Wrap(msg, err) == <<msg>> \o err

ErrorsIs(err, target) == \E i \in 1..Len(err) : err[i] = target

\* database/sql.ErrNoRows
ErrNoRows == "sql: no rows in result set"

(***************************************************************************)
(* The environment of one call: the symbol of the request, what the        *)
(* exchange answers, and whether the database accepts statements.          *)
(***************************************************************************)
ProbeSymbol == "BTC-USDT"

\* the bytes of each symbol of the model; "LF" stands for the byte 0x0A
SymbolChars ==
    [s \in {"", "BTC-USDT", "ETH-USDT", "BTC<LF>USDT"} |->
        CASE s = ""            -> <<>>
          [] s = "BTC-USDT"    -> <<"B", "T", "C", "-", "U", "S", "D", "T">>
          [] s = "ETH-USDT"    -> <<"E", "T", "H", "-", "U", "S", "D", "T">>
          [] s = "BTC<LF>USDT" -> <<"B", "T", "C", "LF", "U", "S", "D", "T">>]

Symbols == DOMAIN SymbolChars

CtlChars == {"LF"}

\* price and size literals of the order books of the model
P40001 == <<"4", "0", "0", "0", "1", ".", "0">>
P40002 == <<"4", "0", "0", "0", "2", ".", "0">>
P40000 == <<"4", "0", "0", "0", "0", ".", "0">>
P39999 == <<"3", "9", "9", "9", "9", ".", "0">>
PZero  == <<"0">>
PNeg   == <<"-", "1", ".", "5">>
PBad   == <<"n", "o", "t", "-", "a", "-", "n", "u", "m", "b", "e", "r">>
PTiny  == <<"0", ".", "0", "0", "0", "0", "0", "0", "0", "0", "0", "1", "5">>
PSize  == <<"0", ".", "8">>

\* one order-book level: [price, size, ...] as strings
Level(price) == <<price, PSize>>

\* values of the envelope's "time" field (milliseconds since the epoch)
MsOf(millions, rest) == I64Add(I64Mul(I64(millions), I64(1000000)), I64(rest))

T2021  == MsOf(1617267, 321123)    \* 1617267321123
TEpoch == I64(0)
TNeg   == I64(-1)
TWrap  == MsOf(9223372, 36855)     \* 9223372036855: times 1e6 exceeds 2^63 - 1

Upstream(fault, status, body, time, asks, bids) ==
    [fault |-> fault, status |-> status, body |-> body,
     time |-> time, asks |-> asks, bids |-> bids]

Answer(time, asks, bids) == Upstream("none", 200, "json", time, asks, bids)

GoodAnswers ==
    { Answer(T2021,  <<Level(P40001), Level(P40002)>>, <<Level(P40000), Level(P39999)>>),
      Answer(TWrap,  <<Level(P40001)>>, <<Level(P40000)>>),
      Answer(TNeg,   <<Level(PZero)>>,  <<Level(PNeg)>>),
      Answer(TEpoch, <<Level(P39999)>>, <<Level(P40002), Level(P40001)>>),
      Answer(T2021,  <<Level(PTiny)>>,  <<Level(P40000)>>) }

BadAnswers ==
    { Upstream("transport", 0, "json", TEpoch, <<>>, <<>>),
      Upstream("none", 500, "json", T2021, <<Level(P40001)>>, <<Level(P40000)>>),
      Upstream("none", 500, "garbage", TEpoch, <<>>, <<>>),
      Upstream("none", 404, "json", TEpoch, <<>>, <<>>),
      Upstream("none", 200, "garbage", TEpoch, <<>>, <<>>),
      Answer(T2021, <<>>, <<>>),
      Answer(T2021, <<>>, <<Level(PBad)>>),
      Answer(T2021, <<Level(P40001)>>, <<>>),
      Answer(T2021, <<Level(PBad)>>, <<Level(P40000)>>),
      Answer(T2021, <<Level(P40001)>>, <<Level(PBad)>>),
      Answer(T2021, <<Level(PBad)>>, <<Level(PBad)>>),
      Answer(T2021, <<<<>>>>, <<Level(P40000)>>),
      Answer(T2021, <<Level(P40001)>>, <<<<>>>>),
      Answer(T2021, <<<<>>>>, <<Level(PBad)>>) }

Responses == GoodAnswers \cup BadAnswers

\* "up": the statement is executed; "down": the driver reports a failure
DbStates == {"up", "down"}

DriverErr == "driver: bad connection"

(***************************************************************************)
(* KuCoinClient.GetOrderBook                                               *)
(***************************************************************************)
\* A URL is a sequence of pieces: the base URL and the fixed parts of the
\* format string are one piece each, the symbol contributes its bytes.
BaseURL == "https://api.kucoin.com"

OrderBookPath == "/api/v1/market/orderbook/level2_20"

\* fmt.Sprintf("%s/api/v1/market/orderbook/level2_20?symbol=%s", c.baseURL, symbol)
RawURL(symbol) == <<BaseURL, OrderBookPath, "?", "symbol", "=">> \o symbol

\* strings.Index: the first position of sep in s, 0 when there is none
Index(s, sep) ==
    IF \E i \in 1..Len(s) : s[i] = sep
    THEN CHOOSE i \in 1..Len(s) : s[i] = sep /\ \A j \in 1..(i - 1) : s[j] # sep
    ELSE 0

\* strings.Cut
Cut(s, sep) ==
    Apply(Index(s, sep), LAMBDA i :
        IF i = 0 THEN [before |-> s, after |-> <<>>, found |-> FALSE]
        ELSE [before |-> SubSeq(s, 1, i - 1), after |-> SubSeq(s, i + 1, Len(s)),
              found |-> TRUE])

RECURSIVE Split(_, _)
Split(s, sep) ==
    Apply(Cut(s, sep), LAMBDA c :
        IF c.found THEN <<c.before>> \o Split(c.after, sep) ELSE <<c.before>>)

\* url.ParseQuery: the pairs between the '&', each cut at its first '=';
\* empty pairs are skipped (the bytes of the model need no unescaping)
ParseQuery(rawQuery) ==
    Apply(SelectSeq(Split(rawQuery, "&"), LAMBDA pair : pair # <<>>), LAMBDA pairs :
        [i \in 1..Len(pairs) |->
            Apply(Cut(pairs[i], "="), LAMBDA c : [key |-> c.before, value |-> c.after])])

\* url.Parse: a control byte is an error; the fragment is what follows the
\* first '#', the query what follows the first '?' before it, and the rest
\* is the base URL and the path
ParseURL(rawURL) ==
    IF \E i \in 1..Len(rawURL) : rawURL[i] \in CtlChars
    THEN [ok |-> FALSE, base |-> "", path |-> <<>>, rawQuery |-> <<>>, fragment |-> <<>>]
    ELSE Apply(Cut(rawURL, "#"), LAMBDA f :
         Apply(Cut(f.before, "?"), LAMBDA q :
            [ok |-> TRUE, base |-> Head(q.before), path |-> Tail(q.before),
             rawQuery |-> q.after, fragment |-> f.after]))

NoRequest ==
    [called |-> FALSE, symbol |-> <<>>, built |-> FALSE, path |-> <<>>, query |-> <<>>]

\* http.NewRequestWithContext(ctx, http.MethodGet, url, nil) for the symbol:
\* the request line carries the path and the query, never the fragment
NewRequest(symbol) ==
    Apply(ParseURL(RawURL(symbol)), LAMBDA u :
        [called |-> TRUE, symbol |-> symbol, built |-> u.ok, path |-> u.path,
         query |-> ParseQuery(u.rawQuery)])

\* http.NewRequestWithContext parses the URL, which fails on a control byte
RequestBuilds(symbol) == NewRequest(SymbolChars[symbol]).built

OrderBookError(err, requests) ==
    [out |-> "error", ask |-> ZeroFloat, bid |-> ZeroFloat,
     timestamp |-> ZeroTime, err |-> err, requests |-> requests]

\* indexing [0][0] of a level without fields: runtime panic, index out of range
OrderBookPanic ==
    [out |-> "panic", ask |-> ZeroFloat, bid |-> ZeroFloat,
     timestamp |-> ZeroTime, err |-> NilErr, requests |-> 1]

GetOrderBook(symbol, up) ==
    IF ~RequestBuilds(symbol)
    THEN OrderBookError(Wrap("failed to create request",
                             NewError("net/url: invalid control character in URL")), 0)
    ELSE IF up.fault # "none"
    THEN OrderBookError(Wrap("failed to make request", NewError("dial tcp: i/o timeout")), 1)
    ELSE IF up.status # 200
    THEN OrderBookError(NewError("unexpected status code: " \o ToString(up.status)), 1)
    ELSE IF up.body # "json"
    THEN OrderBookError(Wrap("failed to decode response",
                             NewError("invalid character 'i' looking for beginning of object key string")), 1)
    ELSE IF Len(up.asks) = 0 \/ Len(up.bids) = 0
    THEN OrderBookError(NewError("empty order book data"), 1)
    ELSE IF Len(up.asks[1]) = 0
    THEN OrderBookPanic
    ELSE Apply(ParseFloat(up.asks[1][1]), LAMBDA askPrice :
    IF ~askPrice.ok
    THEN OrderBookError(Wrap("failed to parse ask price",
                             NewError("strconv.ParseFloat: invalid syntax")), 1)
    ELSE IF Len(up.bids[1]) = 0
    THEN OrderBookPanic
    ELSE Apply(ParseFloat(up.bids[1][1]), LAMBDA bidPrice :
    IF ~bidPrice.ok
    THEN OrderBookError(Wrap("failed to parse bid price",
                             NewError("strconv.ParseFloat: invalid syntax")), 1)
    ELSE [out       |-> "ok",
          ask       |-> askPrice.val,
          bid       |-> bidPrice.val,
          timestamp |-> TimeUnixNano(I64Mul(up.time, Millisecond)),
          err       |-> NilErr,
          requests  |-> 1]))

\* the result of GetOrderBook for every symbol and answer of the model
OrderBooks == [symbol \in Symbols, up \in Responses |-> GetOrderBook(symbol, up)]

(***************************************************************************)
(* postgres.Repository over the rates table                                *)
(***************************************************************************)
TimeBefore(a, b) ==
    \/ a.day < b.day
    \/ a.day = b.day /\ a.sod < b.sod
    \/ a.day = b.day /\ a.sod = b.sod /\ a.nsec < b.nsec

\* the columns of the rates table
SymbolWidth == 20

NumericScale == 10

RECURSIVE Pow10(_)
Pow10(n) == IF n = 0 THEN 1 ELSE 10 * Pow10(n - 1)

\* a float64 stored in a DECIMAL(20, 10) column: rounded to ten fraction
\* digits, half away from zero (the literals of the model stay below 10^10,
\* so the twenty digits are never exceeded)
StoreNumeric(f) ==
    IF f.e <= NumericScale THEN f
    ELSE Apply(Pow10(f.e - NumericScale), LAMBDA p :
         Apply(IF f.m < 0 THEN 0 - f.m ELSE f.m, LAMBDA a :
         Apply((a + p \div 2) \div p, LAMBDA q :
             Float(IF f.m < 0 THEN 0 - q ELSE q, NumericScale))))

\* a time.Time stored in a TIMESTAMP column: microseconds since the epoch
StoreTimestamp(t) == [t EXCEPT !.nsec = t.nsec - (t.nsec % Thousand)]

\* variant: the row of the symbol is replaced when there is one
SaveRate_Upsert(table, rate, db) ==
    IF db # "up"
    THEN [err |-> Wrap("failed to execute insert query", NewError(DriverErr)), rates |-> table]
    ELSE Apply([id |-> Len(table) + 1, symbol |-> rate.symbol,
                ask |-> StoreNumeric(rate.ask), bid |-> StoreNumeric(rate.bid),
                timestamp |-> StoreTimestamp(rate.timestamp)], LAMBDA row :
         Apply({i \in 1..Len(table) : table[i].symbol = rate.symbol}, LAMBDA same :
            [err   |-> NilErr,
             rates |-> IF same = {} THEN Append(table, row)
                       ELSE [i \in 1..Len(table) |->
                                IF i \in same THEN [row EXCEPT !.id = i] ELSE table[i]]]))

\* variant: the values are stored as given, whatever the column types hold
SaveRate_Unrounded(table, rate, db) ==
    IF db # "up"
    THEN [err |-> Wrap("failed to execute insert query", NewError(DriverErr)), rates |-> table]
    ELSE [err   |-> NilErr,
          rates |-> Append(table, [id |-> Len(table) + 1, symbol |-> rate.symbol,
                                   ask |-> rate.ask, bid |-> rate.bid,
                                   timestamp |-> rate.timestamp])]

\* INSERT INTO rates (symbol, ask, bid, timestamp, created_at)
SaveRate(table, rate, db) ==
    IF db # "up"
    THEN [err |-> Wrap("failed to execute insert query", NewError(DriverErr)), rates |-> table]
    ELSE IF Len(SymbolChars[rate.symbol]) > SymbolWidth
    THEN [err   |-> Wrap("failed to execute insert query",
                         NewError("value too long for type character varying(20)")),
          rates |-> table]
    ELSE [err   |-> NilErr,
          rates |-> Append(table, [id |-> Len(table) + 1, symbol |-> rate.symbol,
                                   ask |-> StoreNumeric(rate.ask),
                                   bid |-> StoreNumeric(rate.bid),
                                   timestamp |-> StoreTimestamp(rate.timestamp)])]

\* variant: the driver's error is formatted with %v, which drops the chain
GetLatestRate_Unwrapped(table, symbol, db) ==
    IF db # "up"
    THEN {[rate |-> <<>>, err |-> NewError("failed to get latest rate: " \o DriverErr)]}
    ELSE Apply({i \in 1..Len(table) : table[i].symbol = symbol}, LAMBDA rows :
        IF rows = {}
        THEN {[rate |-> <<>>, err |-> NewError("failed to get latest rate: " \o ErrNoRows)]}
        ELSE {[rate |-> <<table[i]>>, err |-> NilErr] :
                 i \in {k \in rows : \A j \in rows :
                           ~TimeBefore(table[k].timestamp, table[j].timestamp)}})

\* variant: the rows are ordered by id, so the row inserted last is returned
GetLatestRate_LastInserted(table, symbol, db) ==
    IF db # "up"
    THEN {[rate |-> <<>>, err |-> Wrap("failed to get latest rate", NewError(DriverErr))]}
    ELSE Apply({i \in 1..Len(table) : table[i].symbol = symbol}, LAMBDA rows :
        IF rows = {}
        THEN {[rate |-> <<>>, err |-> Wrap("failed to get latest rate", NewError(ErrNoRows))]}
        ELSE {[rate |-> <<table[i]>>, err |-> NilErr] :
                 i \in {k \in rows : \A j \in rows : j <= k}})

\* SELECT ... WHERE symbol = $1 ORDER BY timestamp DESC LIMIT 1: the possible
\* results (rows with equal timestamps come in an unspecified order)
GetLatestRate(table, symbol, db) ==
    IF db # "up"
    THEN {[rate |-> <<>>, err |-> Wrap("failed to get latest rate", NewError(DriverErr))]}
    ELSE Apply({i \in 1..Len(table) : table[i].symbol = symbol}, LAMBDA rows :
        IF rows = {}
        THEN {[rate |-> <<>>, err |-> Wrap("failed to get latest rate", NewError(ErrNoRows))]}
        ELSE {[rate |-> <<table[i]>>, err |-> NilErr] :
                 i \in {k \in rows : \A j \in rows :
                           ~TimeBefore(table[k].timestamp, table[j].timestamp)}})

(***************************************************************************)
(* service.RateService                                                     *)
(***************************************************************************)
NoOrderBook == OrderBookError(NilErr, 0)

\* telemetry.RateFetchCounter.WithLabelValues(symbol, status).Inc(): the labels
\* of one increment of rate_fetch_total
WithLabelValues(symbol, status) == [symbol |-> symbol, status |-> status]

\* variant: a failed insert is returned to the caller instead of being swallowed
ServiceGetRates_SurfaceSaveErr(symbol, up, db, table) ==
    Apply(OrderBooks[symbol, up], LAMBDA ob :
    Apply([symbol |-> symbol, ask |-> ob.ask, bid |-> ob.bid,
           timestamp |-> ob.timestamp], LAMBDA rate :
    Apply(SaveRate(table, rate, db), LAMBDA sv :
    IF ob.out = "panic"
    THEN [out |-> "panic", ask |-> ZeroFloat, bid |-> ZeroFloat,
          timestamp |-> ZeroTime, err |-> NilErr, rates |-> table,
          ob |-> ob, obCalls |-> 1, saved |-> <<>>, saveErr |-> NilErr,
          counted |-> <<>>]
    ELSE IF ob.err # NilErr
    THEN [out |-> "error", ask |-> ZeroFloat, bid |-> ZeroFloat,
          timestamp |-> ZeroTime, err |-> ob.err, rates |-> table,
          ob |-> ob, obCalls |-> 1, saved |-> <<>>, saveErr |-> NilErr,
          counted |-> <<WithLabelValues(symbol, "error")>>]
    ELSE IF sv.err # NilErr
    THEN [out |-> "error", ask |-> ZeroFloat, bid |-> ZeroFloat,
          timestamp |-> ZeroTime, err |-> sv.err, rates |-> sv.rates,
          ob |-> ob, obCalls |-> 1, saved |-> <<rate>>, saveErr |-> sv.err,
          counted |-> <<WithLabelValues(symbol, "success")>>]
    ELSE [out |-> "ok", ask |-> ob.ask, bid |-> ob.bid,
          timestamp |-> ob.timestamp, err |-> NilErr, rates |-> sv.rates,
          ob |-> ob, obCalls |-> 1, saved |-> <<rate>>, saveErr |-> sv.err,
          counted |-> <<WithLabelValues(symbol, "success")>>])))

\* variant: the record is built and saved before the fetch error is looked at
ServiceGetRates_SaveBeforeCheck(symbol, up, db, table) ==
    Apply(OrderBooks[symbol, up], LAMBDA ob :
    Apply([symbol |-> symbol, ask |-> ob.ask, bid |-> ob.bid,
           timestamp |-> ob.timestamp], LAMBDA rate :
    Apply(SaveRate(table, rate, db), LAMBDA sv :
    IF ob.out = "panic"
    THEN [out |-> "panic", ask |-> ZeroFloat, bid |-> ZeroFloat,
          timestamp |-> ZeroTime, err |-> NilErr, rates |-> table,
          ob |-> ob, obCalls |-> 1, saved |-> <<>>, saveErr |-> NilErr,
          counted |-> <<>>]
    ELSE IF ob.err # NilErr
    THEN [out |-> "error", ask |-> ZeroFloat, bid |-> ZeroFloat,
          timestamp |-> ZeroTime, err |-> ob.err, rates |-> sv.rates,
          ob |-> ob, obCalls |-> 1, saved |-> <<rate>>, saveErr |-> sv.err,
          counted |-> <<WithLabelValues(symbol, "error")>>]
    ELSE [out |-> "ok", ask |-> ob.ask, bid |-> ob.bid,
          timestamp |-> ob.timestamp, err |-> NilErr, rates |-> sv.rates,
          ob |-> ob, obCalls |-> 1, saved |-> <<rate>>, saveErr |-> sv.err,
          counted |-> <<WithLabelValues(symbol, "success")>>])))

\* variant: a failed fetch is tried a second time before giving up
ServiceGetRates_RetryFetch(symbol, up, db, table) ==
    Apply(OrderBooks[symbol, up], LAMBDA ob :
    IF ob.out = "panic"
    THEN [out |-> "panic", ask |-> ZeroFloat, bid |-> ZeroFloat,
          timestamp |-> ZeroTime, err |-> NilErr, rates |-> table,
          ob |-> ob, obCalls |-> 1, saved |-> <<>>, saveErr |-> NilErr,
          counted |-> <<>>]
    ELSE IF ob.err # NilErr
    THEN [out |-> "error", ask |-> ZeroFloat, bid |-> ZeroFloat,
          timestamp |-> ZeroTime, err |-> ob.err, rates |-> table,
          ob |-> [ob EXCEPT !.requests = 2 * ob.requests], obCalls |-> 2,
          saved |-> <<>>, saveErr |-> NilErr]
    ELSE Apply([symbol |-> symbol, ask |-> ob.ask, bid |-> ob.bid,
                timestamp |-> ob.timestamp], LAMBDA rate :
         Apply(SaveRate(table, rate, db), LAMBDA sv :
            [out |-> "ok", ask |-> ob.ask, bid |-> ob.bid,
             timestamp |-> ob.timestamp, err |-> NilErr, rates |-> sv.rates,
             ob |-> ob, obCalls |-> 1, saved |-> <<rate>>, saveErr |-> sv.err,
             counted |-> <<WithLabelValues(symbol, "success")>>])))

\* variant: the record that is saved has the two prices the other way round
ServiceGetRates_SwapSides(symbol, up, db, table) ==
    Apply(OrderBooks[symbol, up], LAMBDA ob :
    IF ob.out = "panic"
    THEN [out |-> "panic", ask |-> ZeroFloat, bid |-> ZeroFloat,
          timestamp |-> ZeroTime, err |-> NilErr, rates |-> table,
          ob |-> ob, obCalls |-> 1, saved |-> <<>>, saveErr |-> NilErr,
          counted |-> <<>>]
    ELSE IF ob.err # NilErr
    THEN [out |-> "error", ask |-> ZeroFloat, bid |-> ZeroFloat,
          timestamp |-> ZeroTime, err |-> ob.err, rates |-> table,
          ob |-> ob, obCalls |-> 1, saved |-> <<>>, saveErr |-> NilErr,
          counted |-> <<WithLabelValues(symbol, "error")>>]
    ELSE Apply([symbol |-> symbol, ask |-> ob.bid, bid |-> ob.ask,
                timestamp |-> ob.timestamp], LAMBDA rate :
         Apply(SaveRate(table, rate, db), LAMBDA sv :
            [out |-> "ok", ask |-> ob.ask, bid |-> ob.bid,
             timestamp |-> ob.timestamp, err |-> NilErr, rates |-> sv.rates,
             ob |-> ob, obCalls |-> 1, saved |-> <<rate>>, saveErr |-> sv.err,
             counted |-> <<WithLabelValues(symbol, "success")>>])))

\* variant: when the fetch fails, the latest stored quote of the symbol is
\* returned instead of the error
ServiceGetRates_StoredFallback(symbol, up, db, table) ==
    Apply(OrderBooks[symbol, up], LAMBDA ob :
    IF ob.out = "panic"
    THEN [out |-> "panic", ask |-> ZeroFloat, bid |-> ZeroFloat,
          timestamp |-> ZeroTime, err |-> NilErr, rates |-> table,
          ob |-> ob, obCalls |-> 1, saved |-> <<>>, saveErr |-> NilErr,
          counted |-> <<>>]
    ELSE IF ob.err # NilErr
    THEN Apply(CHOOSE l \in GetLatestRate(table, symbol, db) : TRUE, LAMBDA l :
         IF l.err # NilErr
         THEN [out |-> "error", ask |-> ZeroFloat, bid |-> ZeroFloat,
               timestamp |-> ZeroTime, err |-> ob.err, rates |-> table,
               ob |-> ob, obCalls |-> 1, saved |-> <<>>, saveErr |-> NilErr,
               counted |-> <<WithLabelValues(symbol, "error")>>]
         ELSE [out |-> "ok", ask |-> l.rate[1].ask, bid |-> l.rate[1].bid,
               timestamp |-> l.rate[1].timestamp, err |-> NilErr, rates |-> table,
               ob |-> ob, obCalls |-> 1, saved |-> <<>>, saveErr |-> NilErr,
               counted |-> <<WithLabelValues(symbol, "error")>>])
    ELSE Apply([symbol |-> symbol, ask |-> ob.ask, bid |-> ob.bid,
                timestamp |-> ob.timestamp], LAMBDA rate :
         Apply(SaveRate(table, rate, db), LAMBDA sv :
            [out |-> "ok", ask |-> ob.ask, bid |-> ob.bid,
             timestamp |-> ob.timestamp, err |-> NilErr, rates |-> sv.rates,
             ob |-> ob, obCalls |-> 1, saved |-> <<rate>>, saveErr |-> sv.err,
             counted |-> <<WithLabelValues(symbol, "success")>>])))

\* RateService.GetRates: the values returned, the table afterwards and the
\* calls made on the client and on the repository
ServiceGetRates(symbol, up, db, table) ==
    Apply(OrderBooks[symbol, up], LAMBDA ob :
    IF ob.out = "panic"
    THEN [out |-> "panic", ask |-> ZeroFloat, bid |-> ZeroFloat,
          timestamp |-> ZeroTime, err |-> NilErr, rates |-> table,
          ob |-> ob, obCalls |-> 1, saved |-> <<>>, saveErr |-> NilErr,
          counted |-> <<>>]
    ELSE IF ob.err # NilErr
    THEN [out |-> "error", ask |-> ZeroFloat, bid |-> ZeroFloat,
          timestamp |-> ZeroTime, err |-> ob.err, rates |-> table,
          ob |-> ob, obCalls |-> 1, saved |-> <<>>, saveErr |-> NilErr,
          counted |-> <<WithLabelValues(symbol, "error")>>]
    ELSE Apply([symbol |-> symbol, ask |-> ob.ask, bid |-> ob.bid,
                timestamp |-> ob.timestamp], LAMBDA rate :
         Apply(SaveRate(table, rate, db), LAMBDA sv :
            [out |-> "ok", ask |-> ob.ask, bid |-> ob.bid,
             timestamp |-> ob.timestamp, err |-> NilErr, rates |-> sv.rates,
             ob |-> ob, obCalls |-> 1, saved |-> <<rate>>, saveErr |-> sv.err,
             counted |-> <<WithLabelValues(symbol, "success")>>])))

NoService ==
    [out |-> "none", ask |-> ZeroFloat, bid |-> ZeroFloat,
     timestamp |-> ZeroTime, err |-> NilErr, rates |-> <<>>,
     ob |-> NoOrderBook, obCalls |-> 0, saved |-> <<>>, saveErr |-> NilErr,
     counted |-> <<>>]

\* variant: the result of the store check is not looked at
ServiceHealthCheck_IgnoreStore(latest) ==
    [healthy |-> TRUE, obCalls |-> 0, saved |-> <<>>, counted |-> <<>>]

\* variant: the store is checked by writing a row for the probe symbol
ServiceHealthCheck_ProbeWrite(latest) ==
    [healthy  |-> ~(latest.err # NilErr /\ ~ErrorsIs(latest.err, ErrNoRows)),
     obCalls  |-> 0,
     saved    |-> <<[symbol |-> ProbeSymbol, ask |-> ZeroFloat, bid |-> ZeroFloat,
                     timestamp |-> ZeroTime]>>,
     counted  |-> <<>>]

\* RateService.HealthCheck, given what GetLatestRate returned for the probe:
\* the answer, and the calls made on the client, on SaveRate and on the counter
ServiceHealthCheck(latest) ==
    IF latest.err # NilErr /\ ~ErrorsIs(latest.err, ErrNoRows)
    THEN [healthy |-> FALSE, obCalls |-> 0, saved |-> <<>>, counted |-> <<>>]
    ELSE [healthy |-> TRUE,  obCalls |-> 0, saved |-> <<>>, counted |-> <<>>]

(***************************************************************************)
(* grpc.RateServiceServer                                                  *)
(***************************************************************************)
Status(code, msg) == [resp |-> <<>>, code |-> code, msg |-> msg]

\* timestamppb.New(t): Seconds = t.Unix(), Nanos = t.Nanosecond()
TimestampNew(t) == [day |-> t.day, sod |-> t.sod, nanos |-> t.nsec]

\* variant: the request is passed on without the check of the symbol
HandlerGetRates_NoValidation(symbol, up, db, table) ==
    Apply(ServiceGetRates(symbol, up, db, table), LAMBDA svc :
    IF svc.out = "panic"
    THEN [rpc |-> Status("panic", "runtime error: index out of range [0] with length 0"),
          svc |-> svc, svcCalls |-> 1]
    ELSE IF svc.err # NilErr
    THEN [rpc |-> Status("Internal", "failed to get rates"),
          svc |-> svc, svcCalls |-> 1]
    ELSE [rpc |-> [resp |-> <<[ask |-> svc.ask, bid |-> svc.bid,
                               timestamp |-> TimestampNew(svc.timestamp)]>>,
                   code |-> "OK", msg |-> ""],
          svc |-> svc, svcCalls |-> 1])

\* variant: the status carries the text of the service error
HandlerGetRates_LeakError(symbol, up, db, table) ==
    IF symbol = ""
    THEN [rpc |-> Status("InvalidArgument", "symbol is required"),
          svc |-> [NoService EXCEPT !.rates = table], svcCalls |-> 0]
    ELSE Apply(ServiceGetRates(symbol, up, db, table), LAMBDA svc :
    IF svc.out = "panic"
    THEN [rpc |-> Status("panic", "runtime error: index out of range [0] with length 0"),
          svc |-> svc, svcCalls |-> 1]
    ELSE IF svc.err # NilErr
    THEN [rpc |-> Status("Internal", svc.err[1]),
          svc |-> svc, svcCalls |-> 1]
    ELSE [rpc |-> [resp |-> <<[ask |-> svc.ask, bid |-> svc.bid,
                               timestamp |-> TimestampNew(svc.timestamp)]>>,
                   code |-> "OK", msg |-> ""],
          svc |-> svc, svcCalls |-> 1])

HandlerGetRates(symbol, up, db, table) ==
    IF symbol = ""
    THEN [rpc |-> Status("InvalidArgument", "symbol is required"),
          svc |-> [NoService EXCEPT !.rates = table], svcCalls |-> 0]
    ELSE Apply(ServiceGetRates(symbol, up, db, table), LAMBDA svc :
    IF svc.out = "panic"
    THEN [rpc |-> Status("panic", "runtime error: index out of range [0] with length 0"),
          svc |-> svc, svcCalls |-> 1]
    ELSE IF svc.err # NilErr
    THEN [rpc |-> Status("Internal", "failed to get rates"),
          svc |-> svc, svcCalls |-> 1]
    ELSE [rpc |-> [resp |-> <<[ask |-> svc.ask, bid |-> svc.bid,
                               timestamp |-> TimestampNew(svc.timestamp)]>>,
                   code |-> "OK", msg |-> ""],
          svc |-> svc, svcCalls |-> 1])

\* variant: an unhealthy service is reported as a failed call
HandlerHealthCheck_FailUnhealthy(latest) ==
    IF ServiceHealthCheck(latest).healthy
    THEN [resp |-> <<[healthy |-> TRUE]>>, code |-> "OK", msg |-> ""]
    ELSE Status("Unavailable", "service is unhealthy")

HandlerHealthCheck(latest) ==
    [resp |-> <<[healthy |-> ServiceHealthCheck(latest).healthy]>>,
     code |-> "OK", msg |-> ""]

(***************************************************************************)
(* The running process: App.Run with its Serve goroutine, and the GetRates *)
(* calls that the gRPC server runs concurrently, one goroutine per call.   *)
(* A call is a sequence of steps (request sent, response received or the   *)
(* wait aborted, row inserted), and the steps of different calls and of    *)
(* App.Run interleave.                                                     *)
(***************************************************************************)
NumCalls == 2

Calls == 1..NumCalls

\* what the exchange answers to the calls of this part
ServedAnswers ==
    { Answer(T2021,  <<Level(P40001), Level(P40002)>>, <<Level(P40000), Level(P39999)>>),
      Answer(TEpoch, <<Level(P39999)>>, <<Level(P40002), Level(P40001)>>),
      Upstream("none", 500, "json", T2021, <<Level(P40001)>>, <<Level(P40000)>>),
      Answer(T2021, <<<<>>>>, <<Level(P40000)>>) }

\* ctx.Err() of a cancelled context
ErrCanceled == "context canceled"

NoAnswer == Upstream("none", 0, "", TEpoch, <<>>, <<>>)

\* a call that has not begun; joined records whether all the other calls
\* were in progress when it began
IdleCall ==
    [pc |-> "idle", symbol |-> "", cancelled |-> FALSE, up |-> NoAnswer,
     ob |-> NoOrderBook, counted |-> <<>>, saved |-> <<>>, saveErr |-> NilErr,
     rpc |-> Status("none", ""), joined |-> FALSE]

\* variant: the context of the insert is detached from the inbound one
CtxSave_Background(cancelled) == FALSE

\* ctxSave, spanSave := s.tracer.Start(ctx, ...): done exactly when ctx is
CtxSave(cancelled) == cancelled

\* variant: a call reuses the quote that another call for the same symbol
\* has already fetched
CallFetch_Coalesced(cs, c, up) ==
    Apply({d \in Calls \ {c} : /\ cs[d].symbol = cs[c].symbol
                               /\ cs[d].pc \in {"save", "done"}
                               /\ cs[d].ob.out = "ok"}, LAMBDA others :
        IF others = {} THEN OrderBooks[cs[c].symbol, up]
        ELSE cs[CHOOSE d \in others : \A x \in others : d <= x].ob)

\* ask, bid, timestamp, err := s.kuCoinClient.GetOrderBook(ctx, symbol): what
\* call c gets when the exchange answers its request with up
CallFetch(cs, c, up) == OrderBooks[cs[c].symbol, up]

\* db.ExecContext(ctx, ...) and Close(): a closed pool executes nothing
RepoDb(r) == IF r.closed THEN "down" ELSE "up"

\* the response of the handler for a quote of the service
QuoteResponse(ob) ==
    [resp |-> <<[ask |-> ob.ask, bid |-> ob.bid, timestamp |-> TimestampNew(ob.timestamp)]>>,
     code |-> "OK", msg |-> ""]

\* db.ExecContext(ctx, query, ...): a context that is already done makes the
\* call return ctx.Err() without executing the statement
SaveRateCtx(done, table, rate, db) ==
    IF done
    THEN [err   |-> Wrap("failed to execute insert query", NewError(ErrCanceled)),
          rates |-> table]
    ELSE SaveRate(table, rate, db)

\* variant: the pool is closed before the server is stopped
ShutdownSteps_CloseFirst == <<"closeRepo", "gracefulStop">>

\* App.Shutdown: GracefulStop of the gRPC server, then Close of the repository
ShutdownSteps == <<"gracefulStop", "closeRepo">>

\* App.Run up to the select, the Serve goroutine and the repository of NewApp
\* (busy records whether calls were in progress when Shutdown began)
AppStart ==
    [pc |-> "migrate", step |-> 0, cause |-> "none", ret |-> "none", busy |-> FALSE]

AppServing == [AppStart EXCEPT !.pc = "select"]

\* a case of the select was taken: a.Shutdown() begins
EnterShutdown(a, cause, busy) ==
    [a EXCEPT !.pc = ShutdownSteps[1], !.step = 1, !.cause = cause, !.busy = busy]

\* the next step of Shutdown, or the return of Run after the last one
AppAdvance(a) ==
    IF a.step + 1 > Len(ShutdownSteps)
    THEN [a EXCEPT !.pc = "returned", !.step = a.step + 1,
                   !.ret = IF a.cause = "serveErr" THEN "err" ELSE "nil"]
    ELSE [a EXCEPT !.pc = ShutdownSteps[a.step + 1], !.step = a.step + 1]

RepoOpen == [closed |-> FALSE, closes |-> 0, closeErr |-> NilErr]

(***************************************************************************)
(* State: the rates table, whether the process died of a panic, and the    *)
(* record of the last RPC (its inputs, the calls made, its outcome).       *)
(***************************************************************************)
VARIABLES rates, crashed, last

\* the calls in progress, App.Run, the Serve goroutine, the repository and
\* the number of requests that reached the exchange
VARIABLES calls, app, srv, repo, sent

\* the upstream request that the client has built last
VARIABLES req

vars == <<rates, crashed, last, calls, app, srv, repo, sent, req>>

\* the variables that the calls taken one at a time leave alone
svars == <<calls, app, srv, repo, sent, req>>

NoLatest == [rate |-> <<>>, err |-> NilErr]

NoCall ==
    [op |-> "none", symbol |-> "", up |-> Upstream("none", 0, "", TEpoch, <<>>, <<>>),
     db |-> "up", before |-> <<>>,
     svc |-> NoService, svcCalls |-> 0, latestCalls |-> 0, latest |-> NoLatest,
     healthy |-> FALSE, rpc |-> Status("none", "")]

\* the exchange as it is during a health check (no code looks at it)
ProbeAnswers ==
    { Answer(T2021, <<Level(P40001), Level(P40002)>>, <<Level(P40000), Level(P39999)>>),
      Upstream("transport", 0, "json", TEpoch, <<>>, <<>>) }

Init ==
    /\ rates = <<>>
    /\ crashed = FALSE
    /\ last = NoCall
    /\ calls = [c \in Calls |-> IdleCall]
    /\ app = AppServing
    /\ srv = [pc |-> "serving", stopped |-> FALSE]
    /\ repo = RepoOpen
    /\ sent = 0
    /\ req = NoRequest

\* one GetRates RPC, from the request to the response
GetRates ==
    \E symbol \in Symbols, up \in Responses, db \in DbStates :
        \E h \in {HandlerGetRates(symbol, up, db, rates)} :
            /\ ~crashed
            /\ Len(rates) < MaxRows
            /\ rates' = h.svc.rates
            /\ crashed' = (h.rpc.code = "panic")
            /\ last' = [NoCall EXCEPT !.op = "GetRates", !.symbol = symbol, !.up = up,
                                      !.db = db, !.before = rates, !.svc = h.svc,
                                      !.svcCalls = h.svcCalls, !.rpc = h.rpc]
            /\ UNCHANGED svars

\* one HealthCheck RPC; the exchange is in state up whether or not it is asked
HealthCheck ==
    \E up \in ProbeAnswers, db \in DbStates :
        \E latest \in GetLatestRate(rates, ProbeSymbol, db) :
            \E hc \in {ServiceHealthCheck(latest)} :
              \E sv \in {IF hc.saved = <<>> THEN [err |-> NilErr, rates |-> rates]
                          ELSE SaveRate(rates, hc.saved[1], db)} :
                /\ ~crashed
                /\ rates' = sv.rates
                /\ crashed' = FALSE
                /\ last' = [NoCall EXCEPT !.op = "HealthCheck", !.up = up, !.db = db,
                                          !.before = rates, !.svcCalls = 1,
                                          !.svc = [NoService EXCEPT !.rates = sv.rates,
                                                                    !.obCalls = hc.obCalls,
                                                                    !.saved = hc.saved,
                                                                    !.saveErr = sv.err,
                                                                    !.counted = hc.counted],
                                          !.latestCalls = 1, !.latest = latest,
                                          !.healthy = hc.healthy,
                                          !.rpc = HandlerHealthCheck(latest)]
                /\ UNCHANGED svars

\* docker-compose restarts the container after a failure; the table persists
Restart ==
    /\ crashed
    /\ crashed' = FALSE
    /\ rates' = rates
    /\ last' = NoCall
    /\ UNCHANGED svars

Next == GetRates \/ HealthCheck \/ Restart

Spec == Init /\ [][Next]_vars

(***************************************************************************)
(* App.Run and the concurrent calls, step by step.                         *)
(***************************************************************************)
ServerInit ==
    /\ rates = <<>>
    /\ crashed = FALSE
    /\ last = NoCall
    /\ calls = [c \in Calls |-> IdleCall]
    /\ app = AppStart
    /\ srv = [pc |-> "idle", stopped |-> FALSE]
    /\ repo = RepoOpen
    /\ sent = 0
    /\ req = NoRequest

\* the process runs until Run returns (main exits) or a panic kills it
Alive == ~crashed /\ app.pc # "returned"

\* Serve has been entered and neither Stop nor GracefulStop has been called
Accepting == srv.pc \notin {"idle", "starting"} /\ ~srv.stopped

InFlight(c) == calls[c].pc \in {"waiting", "save"}

Pending == {c \in Calls : InFlight(c)}

\* the symbols of the concurrent calls
ServedSymbols == {"", "BTC-USDT", "BTC<LF>USDT"}

\* a.runMigrations(): on an error Run returns it at once
RunMigrations ==
    /\ Alive /\ app.pc = "migrate"
    /\ \E ok \in BOOLEAN :
          app' = IF ok THEN [app EXCEPT !.pc = "listen"]
                 ELSE [app EXCEPT !.pc = "returned", !.cause = "migrateErr", !.ret = "err"]
    /\ UNCHANGED <<rates, crashed, last, req, calls, srv, repo, sent>>

\* net.Listen, then go func() { a.grpcServer.Serve(lis) ... }()
Listen ==
    /\ Alive /\ app.pc = "listen"
    /\ \E ok \in BOOLEAN :
          IF ok
          THEN app' = [app EXCEPT !.pc = "select"] /\ srv' = [srv EXCEPT !.pc = "starting"]
          ELSE /\ app' = [app EXCEPT !.pc = "returned", !.cause = "listenErr", !.ret = "err"]
               /\ srv' = srv
    /\ UNCHANGED <<rates, crashed, last, req, calls, repo, sent>>

\* grpcServer.Serve(lis) is entered: after GracefulStop it returns
\* ErrServerStopped at once
Serve ==
    /\ Alive /\ srv.pc = "starting"
    /\ srv' = [srv EXCEPT !.pc = IF srv.stopped THEN "failed" ELSE "serving"]
    /\ UNCHANGED <<rates, crashed, last, req, calls, app, repo, sent>>

\* lis.Accept fails: Serve returns the error
ServeError ==
    /\ Alive /\ srv.pc = "serving"
    /\ srv' = [srv EXCEPT !.pc = "failed"]
    /\ UNCHANGED <<rates, crashed, last, req, calls, app, repo, sent>>

\* case err := <-errCh: the goroutine's send and the receive of the select
RecvErrCh ==
    /\ Alive /\ app.pc = "select" /\ srv.pc = "failed"
    /\ srv' = [srv EXCEPT !.pc = "exited"]
    /\ app' = EnterShutdown(app, "serveErr", Pending # {})
    /\ UNCHANGED <<rates, crashed, last, req, calls, repo, sent>>

\* case <-quit: os.Interrupt or SIGTERM
RecvQuit ==
    /\ Alive /\ app.pc = "select"
    /\ app' = EnterShutdown(app, "signal", Pending # {})
    /\ UNCHANGED <<rates, crashed, last, req, calls, srv, repo, sent>>

\* case <-ctx.Done()
RecvCtxDone ==
    /\ Alive /\ app.pc = "select"
    /\ app' = EnterShutdown(app, "ctx", Pending # {})
    /\ UNCHANGED <<rates, crashed, last, req, calls, srv, repo, sent>>

\* a.grpcServer.GracefulStop(): the listener is closed (Serve returns nil),
\* no new call is accepted, and the call blocks until the pending ones end
GracefulStop ==
    /\ Alive /\ app.pc = "gracefulStop"
    /\ srv' = [pc |-> IF srv.pc = "serving" THEN "exited" ELSE srv.pc, stopped |-> TRUE]
    /\ app' = [app EXCEPT !.pc = "waitCalls"]
    /\ UNCHANGED <<rates, crashed, last, req, calls, repo, sent>>

\* GracefulStop returns
CallsDrained ==
    /\ Alive /\ app.pc = "waitCalls"
    /\ \A c \in Calls : ~InFlight(c)
    /\ app' = AppAdvance(app)
    /\ UNCHANGED <<rates, crashed, last, req, calls, srv, repo, sent>>

\* a.repo.Close(): an error is logged and nothing else
CloseRepo ==
    /\ Alive /\ app.pc = "closeRepo"
    /\ \E err \in {NilErr, Wrap("failed to close database connection", NewError(DriverErr))} :
          repo' = [closed |-> TRUE, closes |-> repo.closes + 1, closeErr |-> err]
    /\ app' = AppAdvance(app)
    /\ UNCHANGED <<rates, crashed, last, req, calls, srv, sent>>

\* the handler and the service of call c run up to httpClient.Do: the empty
\* symbol and a request that cannot be built end the call at once
Begin(c) ==
    /\ Alive /\ Accepting /\ calls[c].pc = "idle"
    /\ \E symbol \in ServedSymbols :
          IF symbol = ""
          THEN /\ calls' = [calls EXCEPT ![c] =
                             [IdleCall EXCEPT !.pc = "done",
                                  !.rpc = Status("InvalidArgument", "symbol is required")]]
               /\ sent' = sent
          ELSE IF ~RequestBuilds(symbol)
          THEN /\ calls' = [calls EXCEPT ![c] =
                             [IdleCall EXCEPT !.pc = "done", !.symbol = symbol,
                                  !.ob = GetOrderBook(symbol, NoAnswer),
                                  !.counted = <<WithLabelValues(symbol, "error")>>,
                                  !.rpc = Status("Internal", "failed to get rates")]]
               /\ sent' = sent
          ELSE /\ calls' = [calls EXCEPT ![c] =
                             [IdleCall EXCEPT !.pc = "waiting", !.symbol = symbol,
                                              !.joined = (Pending = Calls \ {c})]]
               /\ sent' = sent + 1
    /\ UNCHANGED <<rates, crashed, last, req, app, srv, repo>>

\* the exchange answers the request of call c: GetOrderBook returns, and the
\* service goes on to the insert, returns the error, or panics
Receive(c) ==
    /\ Alive /\ calls[c].pc = "waiting" /\ ~calls[c].cancelled
    /\ \E up \in ServedAnswers :
          \E ob \in {CallFetch(calls, c, up)} :
             /\ calls' = [calls EXCEPT ![c] =
                    [calls[c] EXCEPT
                        !.up = up, !.ob = ob,
                        !.counted = CASE ob.out = "ok" ->
                                             <<WithLabelValues(calls[c].symbol, "success")>>
                                      [] ob.out = "error" ->
                                             <<WithLabelValues(calls[c].symbol, "error")>>
                                      [] OTHER -> <<>>,
                        !.pc = CASE ob.out = "ok"    -> "save"
                                 [] ob.out = "error" -> "done"
                                 [] OTHER            -> "panicked",
                        !.rpc = CASE ob.out = "ok"    -> Status("none", "")
                                  [] ob.out = "error" -> Status("Internal", "failed to get rates")
                                  [] OTHER            -> Status("panic",
                                        "runtime error: index out of range [0] with length 0")]]
             /\ crashed' = (ob.out = "panic")
    /\ UNCHANGED <<rates, last, req, app, srv, repo, sent>>

\* the context of call c is done while httpClient.Do waits: Do returns the
\* context's error
Abort(c) ==
    /\ Alive /\ calls[c].pc = "waiting" /\ calls[c].cancelled
    /\ calls' = [calls EXCEPT ![c] =
           [calls[c] EXCEPT
               !.pc = "done",
               !.ob = OrderBookError(Wrap("failed to make request", NewError(ErrCanceled)), 1),
               !.counted = <<WithLabelValues(calls[c].symbol, "error")>>,
               !.rpc = Status("Internal", "failed to get rates")]]
    /\ UNCHANGED <<rates, crashed, last, req, app, srv, repo, sent>>

\* s.repo.SaveRate(ctxSave, rate) of call c, and the return of the quote
Save(c) ==
    /\ Alive /\ calls[c].pc = "save"
    /\ \E rate \in {[symbol |-> calls[c].symbol, ask |-> calls[c].ob.ask,
                      bid |-> calls[c].ob.bid, timestamp |-> calls[c].ob.timestamp]} :
          \E sv \in {SaveRateCtx(CtxSave(calls[c].cancelled), rates, rate, RepoDb(repo))} :
             /\ rates' = sv.rates
             /\ calls' = [calls EXCEPT ![c] =
                    [calls[c] EXCEPT !.pc = "done", !.saved = <<rate>>,
                                     !.saveErr = sv.err,
                                     !.rpc = QuoteResponse(calls[c].ob)]]
    /\ UNCHANGED <<crashed, last, req, app, srv, repo, sent>>

\* the caller of call c cancels it, or its deadline passes
Cancel(c) ==
    /\ Alive /\ InFlight(c) /\ ~calls[c].cancelled
    /\ calls' = [calls EXCEPT ![c] = [calls[c] EXCEPT !.cancelled = TRUE]]
    /\ UNCHANGED <<rates, crashed, last, req, app, srv, repo, sent>>

ServerNext ==
    \/ RunMigrations \/ Listen \/ Serve \/ ServeError
    \/ RecvErrCh \/ RecvQuit \/ RecvCtxDone
    \/ GracefulStop \/ CallsDrained \/ CloseRepo
    \/ \E c \in Calls : Begin(c) \/ Receive(c) \/ Abort(c) \/ Save(c) \/ Cancel(c)

ServerSpec == ServerInit /\ [][ServerNext]_vars

(***************************************************************************)
(* The upstream request of GetOrderBook, for every symbol up to a length.  *)
(***************************************************************************)
MaxSymbolLen == 3

\* bytes of a symbol: a letter, the delimiters of a URL, and a line feed
SymbolBytes == {"B", "&", "=", "#", "?", "LF"}

\* the symbols that pass the check of the handler
RequestSymbols == UNION {[1..n -> SymbolBytes] : n \in 1..MaxSymbolLen}

RequestInit ==
    /\ rates = <<>>
    /\ crashed = FALSE
    /\ last = NoCall
    /\ calls = [c \in Calls |-> IdleCall]
    /\ app = AppServing
    /\ srv = [pc |-> "serving", stopped |-> FALSE]
    /\ repo = RepoOpen
    /\ sent = 0
    /\ req = NoRequest

\* GetOrderBook(ctx, symbol) up to the request that it hands to httpClient.Do
BuildRequest ==
    \E symbol \in RequestSymbols :
        /\ req' = NewRequest(symbol)
        /\ UNCHANGED <<rates, crashed, last, calls, app, srv, repo, sent>>

RequestNext == BuildRequest

RequestSpec == RequestInit /\ [][RequestNext]_vars

(***************************************************************************)
(* Properties.  In a state reached by an RPC, last holds the inputs of the *)
(* call (symbol, up, db, the table before) and everything it did.          *)
(***************************************************************************)
\* what the quote client returns on the inputs of the last call
ClientResult == OrderBooks[last.symbol, last.up]

ServiceCalled == last.op = "GetRates" /\ last.svcCalls = 1

\* C1: if the quote client succeeds and SaveRate returns an error, GetRates
\* of the service returns a nil error with the ask, bid and timestamp of the
\* client, and the handler answers OK with the same values.
C1_SaveFailureNotSurfaced ==
    (ServiceCalled /\ ClientResult.out = "ok" /\ last.svc.saveErr # NilErr) =>
        /\ last.svc.err = NilErr
        /\ last.svc.ask = ClientResult.ask
        /\ last.svc.bid = ClientResult.bid
        /\ last.svc.timestamp = ClientResult.timestamp
        /\ last.rpc.code = "OK"
        /\ last.rpc.resp = <<[ask |-> ClientResult.ask, bid |-> ClientResult.bid,
                              timestamp |-> TimestampNew(ClientResult.timestamp)]>>

C1_Witness ==
    /\ ServiceCalled
    /\ ClientResult.out = "ok"
    /\ last.svc.saved # <<>>
    /\ ErrorsIs(last.svc.saveErr, DriverErr)
    /\ last.rpc.code = "OK"
    /\ rates = last.before

\* C2: if GetOrderBook returns an error, GetRates of the service returns that
\* error value unchanged with zero ask, zero bid and the zero time, SaveRate
\* is not invoked and the table is as before the call.
C2_FetchErrorPropagated ==
    (ServiceCalled /\ ClientResult.out = "error") =>
        /\ last.svc.err = ClientResult.err
        /\ last.svc.err # NilErr
        /\ last.svc.ask = ZeroFloat
        /\ last.svc.bid = ZeroFloat
        /\ last.svc.timestamp = ZeroTime
        /\ last.svc.saved = <<>>
        /\ rates = last.before

C2_Witness ==
    /\ ServiceCalled
    /\ last.db = "up"
    /\ last.svc.err = <<"unexpected status code: 500">>
    /\ last.svc.saved = <<>>
    /\ rates = last.before

\* C3: for the empty symbol the handler returns no response and an
\* InvalidArgument status, the service and the client are not called, no HTTP
\* request is sent and no row is inserted.
C3_EmptySymbolRejected ==
    (last.op = "GetRates" /\ last.symbol = "") =>
        /\ last.rpc = Status("InvalidArgument", "symbol is required")
        /\ last.svcCalls = 0
        /\ last.svc.obCalls = 0
        /\ last.svc.ob.requests = 0
        /\ last.svc.saved = <<>>
        /\ rates = last.before

C3_Witness ==
    /\ last.op = "GetRates"
    /\ last.symbol = ""
    /\ last.up \in GoodAnswers
    /\ last.db = "up"
    /\ last.rpc.code = "InvalidArgument"

\* the chain of a repository error holds sql.ErrNoRows
WrapsNoRows(err) == \E i \in 1..Len(err) : err[i] = "sql: no rows in result set"

\* C4: in HealthCheck, if GetLatestRate returns an error that neither is nor
\* wraps the no-rows error, the result is false and GetOrderBook is not called.
C4_StoreErrorUnhealthy ==
    (last.op = "HealthCheck" /\ last.latest.err # NilErr /\ ~WrapsNoRows(last.latest.err)) =>
        /\ last.healthy = FALSE
        /\ last.rpc.resp = <<[healthy |-> FALSE]>>
        /\ last.svc.obCalls = 0

C4_Witness ==
    /\ last.op = "HealthCheck"
    /\ last.db = "down"
    /\ last.latestCalls = 1
    /\ last.latest.err = <<"failed to get latest rate", DriverErr>>
    /\ last.healthy = FALSE

StoreCheckPassed == last.latest.err = NilErr \/ WrapsNoRows(last.latest.err)

\* what a probe of the exchange would return during the last health check
ProbeResult == OrderBooks[ProbeSymbol, last.up]

\* C5: in HealthCheck, whenever the store check passes GetOrderBook is called
\* exactly once for the probe symbol, an error of that call makes the result
\* false, and the result is true only if both checks pass.
C5_ProbeAfterStoreCheck ==
    last.op = "HealthCheck" =>
        /\ StoreCheckPassed => last.svc.obCalls = 1
        /\ (StoreCheckPassed /\ ProbeResult.out # "ok") => ~last.healthy
        /\ last.healthy => (StoreCheckPassed /\ ProbeResult.out = "ok")

NoProbeRow(table) == \A i \in 1..Len(table) : table[i].symbol # ProbeSymbol

\* C6: with no row for the probe symbol in a reachable table, GetLatestRate
\* returns no rate and an error wrapping sql.ErrNoRows, and HealthCheck does
\* not fail because of it; any other repository error fails the store check.
C6_NoRowsIsHealthy ==
    last.op = "HealthCheck" =>
        /\ (last.db = "up" /\ NoProbeRow(rates)) =>
              /\ last.latest.rate = <<>>
              /\ ErrorsIs(last.latest.err, ErrNoRows)
              /\ last.healthy
              /\ last.rpc.resp = <<[healthy |-> TRUE]>>
        /\ (last.latest.err # NilErr /\ ~WrapsNoRows(last.latest.err)) => ~last.healthy

C6_Witness ==
    /\ last.op = "HealthCheck"
    /\ last.db = "up"
    /\ rates # <<>>
    /\ NoProbeRow(rates)
    /\ last.latest.err = <<"failed to get latest rate", "sql: no rows in result set">>
    /\ last.healthy

\* the instant t milliseconds after 1970-01-01T00:00:00Z, as a Timestamp
MsInstant(t) ==
    Apply(I64FloorDivMod(t, 1000), LAMBDA a :
    Apply(I64FloorDivMod(a.q, 86400), LAMBDA d :
        [day |-> I64ToInt(d.q), sod |-> d.r, nanos |-> a.r * 1000000]))

\* the exchange answered 200 with a decodable body, both lists non-empty and
\* parsable prices in their first entries
UsableAnswer(symbol, up) ==
    /\ symbol # ""
    /\ RequestBuilds(symbol)
    /\ up.fault = "none" /\ up.status = 200 /\ up.body = "json"
    /\ Len(up.asks) > 0 /\ Len(up.bids) > 0
    /\ Len(up.asks[1]) > 0 /\ Len(up.bids[1]) > 0
    /\ ParseFloat(up.asks[1][1]).ok /\ ParseFloat(up.bids[1][1]).ok

\* C7: for a non-empty symbol and a usable answer, the response has the price
\* of the first ask entry, the price of the first bid entry and, as timestamp,
\* the instant that the envelope's time field gives in milliseconds.
C7_FirstLevelsAndEnvelopeTime ==
    (last.op = "GetRates" /\ UsableAnswer(last.symbol, last.up)) =>
        /\ last.rpc.code = "OK"
        /\ last.rpc.resp = <<[ask       |-> ParseFloat(last.up.asks[1][1]).val,
                              bid       |-> ParseFloat(last.up.bids[1][1]).val,
                              timestamp |-> MsInstant(last.up.time)]>>

\* Timestamp.AsTime()
AsTime(ts) == [day |-> ts.day, sod |-> ts.sod, nsec |-> ts.nanos]

Scenario2021 ==
    /\ last.op = "GetRates"
    /\ last.symbol = "BTC-USDT"
    /\ last.up.fault = "none" /\ last.up.status = 200 /\ last.up.body = "json"
    /\ last.up.time = T2021
    /\ last.up.asks # <<>> /\ last.up.asks[1] = Level(P40001)
    /\ last.up.bids # <<>> /\ last.up.bids[1] = Level(P40000)

ReturnsQuote(ask, bid, civil) ==
    /\ last.svc.err = NilErr
    /\ last.svc.ask = ask /\ last.svc.bid = bid
    /\ CivilOf(last.svc.timestamp) = civil
    /\ last.rpc.code = "OK"
    /\ last.rpc.resp # <<>>
    /\ last.rpc.resp[1].ask = ask /\ last.rpc.resp[1].bid = bid
    /\ CivilOf(AsTime(last.rpc.resp[1].timestamp)) = civil

\* C8 as stated: with time=1617267321123, first ask "40001.0" and first bid
\* "40000.0", GetRates("BTC-USDT") returns 40001.0, 40000.0 and
\* 2021-03-31T17:35:21.123Z.
C8_Scenario_AsStated ==
    Scenario2021 =>
        ReturnsQuote(Float(40001, 0), Float(40000, 0),
                     [year |-> 2021, month |-> 3, dom |-> 31, hour |-> 17,
                      minute |-> 35, second |-> 21, nano |-> 123000000])

\* C8 amended: in that scenario GetRates("BTC-USDT") returns 40001.0, 40000.0
\* and 2021-04-01T08:55:21.123Z.
C8_Scenario ==
    Scenario2021 =>
        ReturnsQuote(Float(40001, 0), Float(40000, 0),
                     [year |-> 2021, month |-> 4, dom |-> 1, hour |-> 8,
                      minute |-> 55, second |-> 21, nano |-> 123000000])

C8_Witness ==
    /\ Scenario2021
    /\ last.db = "up"
    /\ last.rpc.code = "OK"
    /\ Len(rates) = Len(last.before) + 1

\* C9: whatever error the service returns for a non-empty symbol, the handler
\* returns the same outcome: no response and an Internal status with the
\* fixed text "failed to get rates".
C9_OpaqueInternalError ==
    (ServiceCalled /\ last.svc.err # NilErr) =>
        last.rpc = [resp |-> <<>>, code |-> "Internal", msg |-> "failed to get rates"]

C9_Witness ==
    /\ ServiceCalled
    /\ last.svc.err = <<"failed to parse bid price", "strconv.ParseFloat: invalid syntax">>
    /\ last.rpc.code = "Internal"

\* C10: every GetRates call of the handler ends with a response and a nil
\* error, with no response and InvalidArgument, or with no response and
\* Internal.
C10_ThreeOutcomes ==
    last.op = "GetRates" =>
        \/ last.rpc.code = "OK" /\ Len(last.rpc.resp) = 1
        \/ last.rpc.code = "InvalidArgument" /\ last.rpc.resp = <<>>
        \/ last.rpc.code = "Internal" /\ last.rpc.resp = <<>>

\* C11: HealthCheck of the handler always returns a response and a nil error,
\* and the response's healthy field is the boolean that HealthCheck of the
\* service returned, whatever the store and the exchange are doing.
C11_HealthCheckNeverFails ==
    last.op = "HealthCheck" =>
        /\ last.rpc.code = "OK"
        /\ last.rpc.resp = <<[healthy |-> last.healthy]>>

C11_Witness ==
    /\ last.op = "HealthCheck"
    /\ last.db = "down"
    /\ last.up.fault = "transport"
    /\ ~last.healthy
    /\ last.rpc = [resp |-> <<[healthy |-> FALSE]>>, code |-> "OK", msg |-> ""]

\* the defects of a call's inputs, in the order in which GetOrderBook is to
\* report them
DefectOrder ==
    <<"request-build", "transport", "status", "decode", "empty-book",
      "ask-parse", "bid-parse">>

NoPrice(levels) ==
    /\ Len(levels) > 0
    /\ \/ Len(levels[1]) = 0
       \/ Len(levels[1]) > 0 /\ ~ParseFloat(levels[1][1]).ok

HasDefect(symbol, up, d) ==
    CASE d = "request-build" -> ~RequestBuilds(symbol)
      [] d = "transport"     -> up.fault # "none"
      [] d = "status"        -> up.fault = "none" /\ up.status # 200
      [] d = "decode"        -> up.fault = "none" /\ up.body # "json"
      [] d = "empty-book"    -> up.fault = "none" /\ up.body = "json"
                                /\ (Len(up.asks) = 0 \/ Len(up.bids) = 0)
      [] d = "ask-parse"     -> up.fault = "none" /\ up.body = "json" /\ NoPrice(up.asks)
      [] d = "bid-parse"     -> up.fault = "none" /\ up.body = "json" /\ NoPrice(up.bids)

Defects(symbol, up) == {i \in DOMAIN DefectOrder : HasDefect(symbol, up, DefectOrder[i])}

FirstDefect(symbol, up) ==
    DefectOrder[CHOOSE i \in Defects(symbol, up) : \A j \in Defects(symbol, up) : i <= j]

DefectMessage(d, up) ==
    CASE d = "request-build" -> "failed to create request"
      [] d = "transport"     -> "failed to make request"
      [] d = "status"        -> "unexpected status code: " \o ToString(up.status)
      [] d = "decode"        -> "failed to decode response"
      [] d = "empty-book"    -> "empty order book data"
      [] d = "ask-parse"     -> "failed to parse ask price"
      [] d = "bid-parse"     -> "failed to parse bid price"

\* C12: when the inputs of a GetOrderBook call have several defects at once,
\* the call returns the error of the first one in the order request-build,
\* transport, non-200 status, decode, empty book, ask price, bid price.
C12_FirstDefectReported ==
    (ServiceCalled /\ Cardinality(Defects(last.symbol, last.up)) >= 2) =>
        /\ ClientResult.out = "error"
        /\ ClientResult.err # NilErr
        /\ ClientResult.err[1] = DefectMessage(FirstDefect(last.symbol, last.up), last.up)

\* calls made by the last GetRates RPC: of the service, of the client, of the
\* HTTP client (Do) and of SaveRate
NoRetry ==
    /\ last.svcCalls = 1
    /\ last.svc.obCalls = 1
    /\ Len(last.svc.saved) <= 1
    /\ last.svc.ob.out = "error" => (last.svc.saved = <<>> /\ rates = last.before)
    /\ last.svc.saveErr # NilErr => (Len(last.svc.saved) = 1 /\ rates = last.before)

\* C13 as stated: every GetOrderBook call makes exactly one upstream HTTP
\* request, and every GetRates RPC with a non-empty symbol results in exactly
\* one GetOrderBook call and at most one SaveRate call, with no retry.
C13_OneRequest_AsStated ==
    (last.op = "GetRates" /\ last.symbol # "") =>
        /\ last.svc.ob.requests = 1
        /\ NoRetry

\* C13 amended: a GetOrderBook call whose request can be built calls the HTTP
\* client exactly once, one whose request cannot be built makes no upstream
\* request; every GetRates RPC with a non-empty symbol results in exactly one
\* GetOrderBook call and at most one SaveRate call, with no retry.
C13_OneRequestIfBuilt ==
    (last.op = "GetRates" /\ last.symbol # "") =>
        /\ last.svc.ob.requests = (IF RequestBuilds(last.symbol) THEN 1 ELSE 0)
        /\ NoRetry

C13_Witness ==
    /\ last.op = "GetRates"
    /\ last.symbol = "BTC-USDT"
    /\ last.up.fault = "none" /\ last.up.status = 500
    /\ last.svc.err = <<"unexpected status code: 500">>
    /\ last.svc.ob.requests = 1
    /\ last.svc.obCalls = 1
    /\ last.svc.saved = <<>>

RowsOf(table, symbol) == {i \in 1..Len(table) : table[i].symbol = symbol}

OnlySymbol(table, symbol) == SelectSeq(table, LAMBDA row : row.symbol = symbol)

\* r is one row of the symbol, and no row of the symbol has a later timestamp
IsLatestOf(r, table, symbol) ==
    IF RowsOf(table, symbol) = {}
    THEN r.rate = <<>> /\ r.err # NilErr
    ELSE /\ r.err = NilErr
         /\ Len(r.rate) = 1
         /\ r.rate[1].symbol = symbol
         /\ \E i \in RowsOf(table, symbol) : table[i] = r.rate[1]
         /\ \A i \in RowsOf(table, symbol) :
                ~TimeBefore(r.rate[1].timestamp, table[i].timestamp)

\* C14: on every table that a sequence of saves can produce, GetLatestRate
\* returns one row of the requested symbol whose timestamp is the maximum
\* among the rows of that symbol, and the rows of the other symbols make no
\* difference to the result.
C14_LatestOfSymbol ==
    /\ \A symbol \in Symbols :
          /\ \A r \in GetLatestRate(rates, symbol, "up") : IsLatestOf(r, rates, symbol)
          /\ GetLatestRate(rates, symbol, "up")
                = GetLatestRate(OnlySymbol(rates, symbol), symbol, "up")
    /\ (last.op = "HealthCheck" /\ last.db = "up") =>
          IsLatestOf(last.latest, rates, ProbeSymbol)

C14_Witness ==
    /\ last.op = "HealthCheck"
    /\ last.db = "up"
    /\ Len(rates) = 2
    /\ rates[1].symbol = ProbeSymbol /\ rates[2].symbol = ProbeSymbol
    /\ TimeBefore(rates[2].timestamp, rates[1].timestamp)
    /\ last.latest = [rate |-> <<rates[1]>>, err |-> NilErr]

\* the last call handed a record to SaveRate and SaveRate returned nil
SaveSucceeded ==
    /\ last.op = "GetRates"
    /\ last.svc.saved # <<>>
    /\ last.svc.saveErr = NilErr

\* C15 as stated: after a successful SaveRate of (s, a, b, T), GetLatestRate(s)
\* returns a record with ask a, bid b and quote time T, whatever rows the
\* table held before.
C15_RoundTrip_AsStated ==
    SaveSucceeded =>
        \A r \in GetLatestRate(rates, last.symbol, "up") :
            /\ r.err = NilErr
            /\ r.rate # <<>>
            /\ r.rate[1].ask = last.svc.saved[1].ask
            /\ r.rate[1].bid = last.svc.saved[1].bid
            /\ r.rate[1].timestamp = last.svc.saved[1].timestamp

Abs(n) == IF n < 0 THEN 0 - n ELSE n

\* x has at most ten fraction digits and is a nearest such value to a
RoundedToTenPlaces(a, x) ==
    IF a.e <= 10 THEN x = a
    ELSE /\ x.e <= 10
         /\ 2 * Abs(a.m - x.m * Pow10(a.e - x.e)) <= Pow10(a.e - 10)

\* x is t without its fraction of a microsecond
CutToMicroseconds(t, x) ==
    /\ x.day = t.day /\ x.sod = t.sod
    /\ x.nsec % 1000 = 0
    /\ x.nsec <= t.nsec /\ t.nsec < x.nsec + 1000

\* every row that the table held for the symbol is older than the saved
\* quote by at least a microsecond
NewerThanStored ==
    \A i \in RowsOf(last.before, last.symbol) :
        \E x \in {rates[Len(rates)].timestamp} :
            TimeBefore(last.before[i].timestamp, x)

\* C15 amended: after a successful SaveRate of (s, a, b, T) where T, cut to
\* microseconds, is later than the quote time of every row stored for s,
\* GetLatestRate(s) returns a record with a and b rounded to ten decimal
\* places and T cut to microseconds.
C15_RoundTrip ==
    (SaveSucceeded /\ NewerThanStored) =>
        \A r \in GetLatestRate(rates, last.symbol, "up") :
            /\ r.err = NilErr
            /\ r.rate # <<>>
            /\ RoundedToTenPlaces(last.svc.saved[1].ask, r.rate[1].ask)
            /\ RoundedToTenPlaces(last.svc.saved[1].bid, r.rate[1].bid)
            /\ CutToMicroseconds(last.svc.saved[1].timestamp, r.rate[1].timestamp)

C15_Witness ==
    /\ SaveSucceeded
    /\ Len(last.before) = 1
    /\ last.before[1].symbol = last.symbol
    /\ NewerThanStored
    /\ last.svc.saved[1].ask = Float(15, 11)
    /\ \E r \in GetLatestRate(rates, last.symbol, "up") : r.rate[1].ask = Float(2, 10)

\* C16: no GetRates or HealthCheck call changes or removes a row of the rates
\* table; a GetRates call whose fetch and insert both succeed adds exactly
\* one row at the end, and every other call leaves the table as it was.
C16_AppendOnly ==
    [][IF /\ last'.op = "GetRates"
          /\ last'.svc.ob.out = "ok"
          /\ last'.svc.saved # <<>>
          /\ last'.svc.saveErr = NilErr
       THEN /\ Len(rates') = Len(rates) + 1
            /\ SubSeq(rates', 1, Len(rates)) = rates
       ELSE rates' = rates]_vars

C16_Witness ==
    /\ last.op = "GetRates"
    /\ last.svc.saveErr = NilErr
    /\ Len(last.before) = 1
    /\ Len(rates) = 2
    /\ rates[1] = last.before[1]
    /\ rates[2].symbol = rates[1].symbol

Positive(f) == f.m > 0

\* C20: every quote that GetOrderBook returns without error, every quote in
\* an RPC response and every row of the rates table has ask > 0 and bid > 0.
C20_PositivePrices ==
    /\ (ServiceCalled /\ last.svc.ob.out = "ok") =>
          (Positive(last.svc.ob.ask) /\ Positive(last.svc.ob.bid))
    /\ (last.op = "GetRates" /\ last.rpc.code = "OK") =>
          (Positive(last.rpc.resp[1].ask) /\ Positive(last.rpc.resp[1].bid))
    /\ \A i \in 1..Len(rates) : Positive(rates[i].ask) /\ Positive(rates[i].bid)

(***************************************************************************)
(* Properties of the concurrent calls and of App.Run (ServerSpec).         *)
(***************************************************************************)
\* what the quote client returns to call c on the answer to its own request
OwnFetch(c) == OrderBooks[calls[c].symbol, calls[c].up]

Fetched(c) == calls[c].pc \in {"save", "done"} /\ calls[c].up # NoAnswer

Inserted(c) == calls[c].pc = "done" /\ calls[c].saved # <<>> /\ calls[c].saveErr = NilErr

\* the row that call c inserts
RowOfCall(row, c) ==
    /\ row.symbol = calls[c].symbol
    /\ row.ask = StoreNumeric(OwnFetch(c).ask)
    /\ row.bid = StoreNumeric(OwnFetch(c).bid)
    /\ row.timestamp = StoreTimestamp(OwnFetch(c).timestamp)

\* C17: under every interleaving of the calls, each call that reaches the
\* exchange makes its own request, each caller gets the result of the answer
\* to its own request, and each successful insert adds its own row: when all
\* N calls for one symbol have succeeded, there are exactly N requests and N
\* new rows, one per call.
C17_NoCoalescing ==
    /\ sent = Cardinality({c \in Calls : calls[c].pc \in {"waiting", "save", "done", "panicked"}
                                         /\ calls[c].symbol # ""
                                         /\ RequestBuilds(calls[c].symbol)})
    /\ Len(rates) = Cardinality({c \in Calls : Inserted(c)})
    /\ \A c \in Calls :
          /\ Fetched(c) => calls[c].ob = OwnFetch(c)
          /\ (calls[c].pc = "done" /\ calls[c].rpc.code = "OK") =>
                calls[c].rpc = QuoteResponse(OwnFetch(c))
          /\ Inserted(c) =>
                Cardinality({i \in 1..Len(rates) : RowOfCall(rates[i], c)})
                    = Cardinality({d \in Calls : /\ Inserted(d)
                                                 /\ calls[d].symbol = calls[c].symbol
                                                 /\ OwnFetch(d) = OwnFetch(c)})
    /\ (\A c \in Calls : Inserted(c) /\ calls[c].symbol = calls[1].symbol) =>
          (sent = NumCalls /\ Len(rates) = NumCalls)

C17_Witness ==
    /\ \A c \in Calls : /\ Inserted(c)
                         /\ calls[c].symbol = "BTC-USDT"
                         /\ calls[c].rpc.code = "OK"
    /\ \E c \in Calls : calls[c].joined
    /\ calls[1].up # calls[2].up
    /\ RowOfCall(rates[1], 2)
    /\ sent = NumCalls
    /\ Len(rates) = NumCalls

\* C18: once the context of a call is cancelled, its pending upstream request
\* ends with an error, so that the call returns an error without an insert,
\* and its insert, if not yet done, adds no row: no step of a cancelled call
\* changes the rates table.
C18_CancelObserved ==
    [][\A c \in Calls :
          (calls[c].cancelled /\ calls'[c] # calls[c]) =>
              /\ rates' = rates
              /\ calls'[c].pc = "done"
              /\ calls[c].pc = "waiting" =>
                    /\ calls'[c].ob.out = "error"
                    /\ calls'[c].rpc = Status("Internal", "failed to get rates")
                    /\ calls'[c].saved = <<>>
              /\ calls[c].pc = "save" => calls'[c].saveErr # NilErr]_vars

C18_Witness ==
    /\ calls[1].pc = "done" /\ calls[1].cancelled
    /\ calls[1].ob.err = <<"failed to make request", ErrCanceled>>
    /\ calls[1].rpc.code = "Internal"
    /\ calls[2].pc = "done" /\ calls[2].cancelled
    /\ calls[2].ob.out = "ok"
    /\ calls[2].saveErr = <<"failed to execute insert query", ErrCanceled>>
    /\ rates = <<>>

\* C19: when Run takes the signal or the context case, the gRPC server is
\* stopped gracefully first (the calls in progress end with their outcome),
\* the repository is closed only afterwards and exactly once, and Run
\* returns nil, also when Close returns an error; the repository is never
\* closed while the server accepts or runs a call.
C19_GracefulShutdown ==
    /\ repo.closes <= 1
    /\ repo.closed =>
          /\ repo.closes = 1
          /\ srv.stopped /\ ~Accepting
          /\ \A c \in Calls : calls[c].pc \in {"idle", "done"}
    /\ (app.pc = "returned" /\ app.cause \in {"signal", "ctx"}) =>
          /\ app.ret = "nil"
          /\ repo.closed
          /\ ~crashed

C19_Witness ==
    /\ app.pc = "returned" /\ app.cause = "signal" /\ app.ret = "nil"
    /\ repo.closes = 1 /\ repo.closeErr # NilErr
    /\ app.busy
    /\ \A c \in Calls : calls[c].pc = "done" /\ calls[c].rpc.code = "OK"
    /\ Len(rates) = NumCalls

\* the row that the last call appended, and the quote of its response
LastRow == rates[Len(rates)]

LastQuote == last.rpc.resp[1]

C21_RecordOfFetch ==
    /\ last.svc.obCalls = 1
    /\ last.svc.out = "ok"
    /\ last.svc.saved = <<[symbol |-> last.symbol, ask |-> last.svc.ask,
                           bid |-> last.svc.bid, timestamp |-> last.svc.timestamp]>>
    /\ last.rpc.code = "OK"
    /\ LastQuote = [ask |-> last.svc.ask, bid |-> last.svc.bid,
                    timestamp |-> TimestampNew(last.svc.timestamp)]
    /\ IF last.svc.saveErr # NilErr THEN rates = last.before
       ELSE /\ Len(rates) = Len(last.before) + 1
            /\ SubSeq(rates, 1, Len(last.before)) = last.before
            /\ LastRow.symbol = last.symbol

\* C21 as stated: when the fetch succeeds, the record handed to SaveRate has
\* the requested symbol and the ask, bid and timestamp returned to the
\* caller, SaveRate is called after the fetch and before the return, and the
\* row that is stored has exactly the values of the response.
C21_RowMatchesResponse_AsStated ==
    (ServiceCalled /\ ClientResult.out = "ok") =>
        /\ C21_RecordOfFetch
        /\ last.svc.saveErr = NilErr =>
              /\ LastRow.ask = LastQuote.ask
              /\ LastRow.bid = LastQuote.bid
              /\ TimestampNew(LastRow.timestamp) = LastQuote.timestamp

\* C21: when the fetch succeeds, the record handed to SaveRate has the
\* requested symbol and the ask, bid and timestamp returned to the caller,
\* SaveRate is called after the fetch and before the return, and the row that
\* is stored has the symbol of the request, the prices of the response
\* rounded to ten decimal places and its timestamp cut to whole microseconds.
C21_RowMatchesResponse ==
    (ServiceCalled /\ ClientResult.out = "ok") =>
        /\ C21_RecordOfFetch
        /\ last.svc.saveErr = NilErr =>
              /\ RoundedToTenPlaces(LastQuote.ask, LastRow.ask)
              /\ RoundedToTenPlaces(LastQuote.bid, LastRow.bid)
              /\ CutToMicroseconds(AsTime(LastQuote.timestamp), LastRow.timestamp)

C21_Witness ==
    /\ ServiceCalled
    /\ ClientResult.out = "ok"
    /\ last.svc.saveErr = NilErr
    /\ Len(rates) = Len(last.before) + 1
    /\ LastRow.ask # LastQuote.ask
    /\ RoundedToTenPlaces(LastQuote.ask, LastRow.ask)

\* what RateService.GetRates returns to its caller
Returned(svc) ==
    [out |-> svc.out, ask |-> svc.ask, bid |-> svc.bid,
     timestamp |-> svc.timestamp, err |-> svc.err]

\* C22: GetRates is stateless: what the service returned in the last call
\* (ask, bid, timestamp and error) is what it returns for the same symbol
\* and the same upstream response in a run with no earlier call, and in a
\* run after this one, whether or not the store is reachable there.
C22_Stateless ==
    ServiceCalled =>
        \A db \in DbStates, table \in {<<>>, rates} :
            Returned(ServiceGetRates(last.symbol, last.up, db, table)) = Returned(last.svc)

C22_Witness ==
    /\ ServiceCalled
    /\ \E i \in 1..Len(last.before) : last.before[i].symbol = last.symbol
    /\ last.db = "down"
    /\ last.svc.saveErr # NilErr
    /\ last.svc.err = NilErr
    /\ Returned(last.svc) = Returned(ServiceGetRates(last.symbol, last.up, "up", <<>>))
    /\ ServiceGetRates(last.symbol, last.up, "up", <<>>).rates # rates

\* C23: for every 200 response whose body decodes, GetOrderBook returns a
\* quote or an error and never faults; when the first ask entry or the first
\* bid entry has no price field, what it returns is a price-parse error.
C23_NeverFaults ==
    (ServiceCalled /\ last.up.fault = "none" /\ last.up.status = 200
                   /\ last.up.body = "json") =>
        /\ ClientResult.out \in {"ok", "error"}
        /\ ~crashed
        /\ (/\ Len(last.up.asks) > 0 /\ Len(last.up.bids) > 0
            /\ (last.up.asks[1] = <<>> \/ last.up.bids[1] = <<>>)) =>
               /\ ClientResult.out = "error"
               /\ ClientResult.err[1] \in {"failed to parse ask price",
                                           "failed to parse bid price"}

\* C24: each call of RateService.GetRates increments rate_fetch_total exactly
\* once, with the labels (symbol, "success") when the fetch succeeded, also
\* when the insert failed, and (symbol, "error") when it did not; a health
\* check increments nothing.
C24_CountedOnce ==
    /\ ServiceCalled =>
          /\ Len(last.svc.counted) = 1
          /\ last.svc.counted[1].symbol = last.symbol
          /\ last.svc.counted[1].status =
                (IF ClientResult.out = "ok" THEN "success" ELSE "error")
    /\ last.op = "HealthCheck" => last.svc.counted = <<>>

\* C25: a health check, whatever its outcome, hands nothing to SaveRate and
\* leaves the rates table as it was: no row is inserted, changed or deleted.
C25_HealthCheckFrame ==
    [][last'.op = "HealthCheck" =>
          /\ rates' = rates
          /\ last'.svc.saved = <<>>
          /\ last'.before = rates
          /\ last'.latestCalls = 1]_vars

C25_Witness ==
    /\ last.op = "HealthCheck"
    /\ last.db = "up"
    /\ last.healthy
    /\ rates # <<>>
    /\ rates = last.before
    /\ NoProbeRow(rates)

\* Run is at the select, the only place where it receives from errCh
Receiving == app.pc = "select"

\* the Serve goroutine is at errCh <- err, which needs a receiver
BlockedOnSend == srv.pc = "failed"

\* C26: the goroutine that runs Serve always terminates: it is never at the
\* send on errCh once Run has left the select, where no receive can follow.
C26_ServeGoroutineEnds ==
    BlockedOnSend => Receiving

\* C27: whenever Run has returned, with or without an error, on the early
\* returns as on the shutdown paths, the repository has been closed exactly
\* once.
C27_RepoClosedOnReturn ==
    app.pc = "returned" => (repo.closed /\ repo.closes = 1)

\* a < b for two int64 whose difference fits 64 bits
I64Less(a, b) == I64IsNeg(I64Add(a, I64Neg(b)))

\* C28: for the millisecond value t of the envelope, t * 1,000,000 does not
\* wrap around in 64 bits, the timestamp that GetOrderBook returns is the
\* instant exactly t milliseconds after the epoch, and a larger t never
\* gives an earlier timestamp.
C28_MillisecondsExact ==
    (ServiceCalled /\ ClientResult.out = "ok") =>
        /\ I64QuoRem(I64Mul(last.up.time, Millisecond), 1000000)
              = [q |-> last.up.time, r |-> 0]
        /\ TimestampNew(ClientResult.timestamp) = MsInstant(last.up.time)
        /\ \A up \in GoodAnswers :
              I64Less(up.time, last.up.time) =>
                  ~TimeBefore(ClientResult.timestamp, OrderBooks[last.symbol, up].timestamp)

\* C29: for every non-empty symbol, the request that GetOrderBook builds has
\* the path /api/v1/market/orderbook/level2_20 and exactly one query
\* parameter, symbol, whose value is the symbol as supplied: no byte of the
\* symbol adds a parameter, cuts the value short or changes the path.
C29_OneSymbolParameter ==
    (req.called /\ req.symbol # <<>>) =>
        /\ req.built
        /\ req.path = <<"/api/v1/market/orderbook/level2_20">>
        /\ req.query = <<[key |-> <<"symbol">>, value |-> req.symbol]>>

=============================================================================
